---- MODULE Spec2Model ----
(***************************************************************************)
(* HIDROCONTROL valve-state service (src/main.py): the in-memory map       *)
(* estados_globales, its JSON file estados.json, and the HTTP handlers     *)
(* that read and mutate them, one action per handler.                      *)
(*                                                                         *)
(* Python strings are sequences of one-character strings, so that          *)
(* str.lower(), str.split('-'), str(num) and f"{block_id}-{num}" are       *)
(* computed.  Python/JSON values are tagged tuples: <<"None">>,            *)
(* <<"str", chars>>, <<"int", n>>, <<"dict", f>>, <<"list", seq>>.         *)
(* Python dicts are functions whose DOMAIN is the dict's key set.          *)
(***************************************************************************)
EXTENDS Integers, Sequences, FiniteSets, TLC

VARIABLES estados_globales, archivo, peticion, respuesta, guardado, reloj,
          activo, otra, hilos

\* estados_globales, peticion, respuesta and guardado are those of the
\* process that is running; with two server processes, activo names it and
\* otra holds the same four for the process that is not running.  hilos are
\* the request threads of a process that serves requests concurrently.
vars == <<estados_globales, archivo, peticion, respuesta, guardado, reloj,
          activo, otra, hilos>>

(***************************************************************************)
(* Bounds                                                                  *)
(***************************************************************************)
\* number of requests handled in one behaviour (the clock advances by one
\* per request)
MaxReloj == 2

(***************************************************************************)
(* Python values                                                           *)
(***************************************************************************)
None == <<"None">>

PyStr(s) == <<"str", s>>

PyInt(n) == <<"int", n>>

PyDict(d) == <<"dict", d>>

PyList(l) == <<"list", l>>

EsDict(v) == v[1] = "dict"

EsStr(v) == v[1] = "str"

\* Python truthiness: None, "", 0, {} and [] are falsy
Truthy(v) ==
    CASE v[1] = "None" -> FALSE
      [] v[1] = "str"  -> Len(v[2]) > 0
      [] v[1] = "int"  -> v[2] # 0
      [] v[1] = "dict" -> DOMAIN v[2] # {}
      [] v[1] = "list" -> Len(v[2]) > 0

\* dict.get(k, default)
Get(d, k, default) == IF k \in DOMAIN d THEN d[k] ELSE default

\* d[k] = v on a Python dict: replaces the value, or creates the key
Poner(d, k, v) == [y \in DOMAIN d \cup {k} |-> IF y = k THEN v ELSE d[y]]

LowerChar(c) ==
    CASE c = "A" -> "a" [] c = "B" -> "b" [] c = "C" -> "c" [] c = "D" -> "d"
      [] c = "E" -> "e" [] c = "F" -> "f" [] c = "G" -> "g" [] c = "H" -> "h"
      [] c = "I" -> "i" [] c = "J" -> "j" [] c = "K" -> "k" [] c = "L" -> "l"
      [] c = "M" -> "m" [] c = "N" -> "n" [] c = "O" -> "o" [] c = "P" -> "p"
      [] c = "Q" -> "q" [] c = "R" -> "r" [] c = "S" -> "s" [] c = "T" -> "t"
      [] c = "U" -> "u" [] c = "V" -> "v" [] c = "W" -> "w" [] c = "X" -> "x"
      [] c = "Y" -> "y" [] c = "Z" -> "z" [] OTHER -> c

\* str.lower()
Lower(s) == [i \in 1..Len(s) |-> LowerChar(s[i])]

Digito(d) ==
    CASE d = 0 -> "0" [] d = 1 -> "1" [] d = 2 -> "2" [] d = 3 -> "3"
      [] d = 4 -> "4" [] d = 5 -> "5" [] d = 6 -> "6" [] d = 7 -> "7"
      [] d = 8 -> "8" [] d = 9 -> "9"

RECURSIVE Str(_)
\* str(n) of a non-negative int
Str(n) == IF n < 10 THEN <<Digito(n)>> ELSE Str(n \div 10) \o <<Digito(n % 10)>>

RECURSIVE Split(_, _)
\* s.split(sep) for a one-character separator: the list of the parts
Split(s, sep) ==
    IF \A i \in 1..Len(s) : s[i] # sep
    THEN <<s>>
    ELSE LET p == CHOOSE i \in 1..Len(s) :
                      s[i] = sep /\ \A j \in 1..(i - 1) : s[j] # sep
         IN  <<SubSeq(s, 1, p - 1)>> \o Split(SubSeq(s, p + 1, Len(s)), sep)

\* datetime.isoformat() of the instant t
IsoFormat(t) == PyStr(<<"T">> \o Str(t))

on == <<"o", "n">>

off == <<"o", "f", "f">>

auto == <<"a", "u", "t", "o">>

block1 == <<"b", "l", "o", "c", "k", "1">>

block2 == <<"b", "l", "o", "c", "k", "2">>

block3 == <<"b", "l", "o", "c", "k", "3">>

block9 == <<"b", "l", "o", "c", "k", "9">>

(***************************************************************************)
(* Persistence: estados.json                                               *)
(***************************************************************************)
RECURSIVE Dumps(_)
\* json.dump of one Python value: the JSON value written
Dumps(v) ==
    CASE v[1] = "None" -> <<"null">>
      [] v[1] = "str"  -> <<"string", v[2]>>
      [] v[1] = "int"  -> <<"number", v[2]>>
      [] v[1] = "dict" -> <<"object", [k \in DOMAIN v[2] |-> Dumps(v[2][k])]>>
      [] v[1] = "list" -> <<"array", [i \in 1..Len(v[2]) |-> Dumps(v[2][i])]>>

RECURSIVE Loads(_)
\* json.load of one JSON value: the Python value built
Loads(j) ==
    CASE j[1] = "null"   -> None
      [] j[1] = "string" -> PyStr(j[2])
      [] j[1] = "number" -> PyInt(j[2])
      [] j[1] = "object" -> PyDict([k \in DOMAIN j[2] |-> Loads(j[2][k])])
      [] j[1] = "array"  -> PyList([i \in 1..Len(j[2]) |-> Loads(j[2][i])])

\* json.dump of the whole map: block -> valve -> field -> JSON value
DumpEstados(estados) ==
    [b \in DOMAIN estados |->
        [n \in DOMAIN estados[b] |->
            [k \in DOMAIN estados[b][n] |-> Dumps(estados[b][n][k])]]]

\* json.load of the whole document
LoadEstados(doc) ==
    [b \in DOMAIN doc |->
        [n \in DOMAIN doc[b] |->
            [k \in DOMAIN doc[b][n] |-> Loads(doc[b][n][k])]]]

\* the file: missing, holding a document, or holding the truncated output
\* of a write that failed
NoExiste == <<"noexiste">>

Parcial == <<"parcial">>

Documento(doc) == <<"json", doc>>

\* str(v) for v in range(1, 6)
ClavesValvula == {Str(v) : v \in 1..5}

estados_defecto ==
    [b \in {block1, block2, block3} |->
        [n \in ClavesValvula |-> [estado |-> PyStr(off), programacion |-> None]]]

\* guardar_estados that returns True without having written the file
guardar_estados_SinEscribir(arch, estados) ==
    { <<TRUE, arch>>,
      <<FALSE, arch>>,
      <<FALSE, Parcial>> }

\* guardar_estados that merges: a valve that is stamped in the file and not
\* in the map keeps the file's entry
guardar_estados_Mezcla(arch, estados) ==
    { <<TRUE,
        Documento(
            [b \in DOMAIN estados |->
                [n \in DOMAIN estados[b] |->
                    IF /\ arch[1] = "json"
                       /\ "ultima_actualizacion" \in DOMAIN arch[2][b][n]
                       /\ "ultima_actualizacion" \notin DOMAIN estados[b][n]
                    THEN arch[2][b][n]
                    ELSE DumpEstados(estados)[b][n]]])>>,
      <<FALSE, arch>>,
      <<FALSE, Parcial>> }

\* guardar_estados: open(..., 'w') truncates the file, json.dump writes it;
\* an exception at open leaves the file as it was, an exception during the
\* write leaves it truncated.  Each outcome is <<returned value, file>>.
guardar_estados(arch, estados) ==
    { <<TRUE, Documento(DumpEstados(estados))>>,
      <<FALSE, arch>>,
      <<FALSE, Parcial>> }

\* the outcome of a save, as the trace records it
Guardado(g) == IF g[1] THEN "ok" ELSE "fallo"

\* cargar_estados that ignores the file and always builds the defaults
cargar_estados_SiempreDefecto(arch) ==
    { <<estados_defecto, g[2], Guardado(g)>> :
          g \in guardar_estados(arch, estados_defecto) }

\* cargar_estados that builds the defaults without saving them
cargar_estados_SinGuardar(arch) ==
    IF arch[1] = "json"
    THEN { <<LoadEstados(arch[2]), arch, "ninguno">> }
    ELSE { <<estados_defecto, arch, "ninguno">> }

\* cargar_estados: a file that exists and parses is returned as loaded;
\* otherwise the defaults are built and saved.  Each outcome is
\* <<returned map, file, outcome of the save>>.
cargar_estados(arch) ==
    IF arch[1] = "json"
    THEN { <<LoadEstados(arch[2]), arch, "ninguno">> }
    ELSE { <<estados_defecto, g[2], Guardado(g)>> :
               g \in guardar_estados(arch, estados_defecto) }

(***************************************************************************)
(* Requests                                                                *)
(***************************************************************************)
\* a request body: none (or not JSON), or a JSON value
SinCuerpo == <<"sin_cuerpo">>

Json(v) == <<"json", v>>

Raise == <<"raise">>

\* request.get_json(): the parsed body.  Without a JSON body it returns
\* None (no JSON content type, older Flask) or raises (an empty body sent
\* as application/json: 400; no JSON content type, newer Flask: 415).
get_json(cuerpo) ==
    IF cuerpo[1] = "sin_cuerpo" THEN {None, Raise} ELSE {cuerpo[2]}

\* block ids and valve numbers named in request paths
BloquesPeticion == {block1, block3, block9}

NumsPeticion == {5, 6}

hora1 == <<"0", "6", ":", "0", "0">>

hora2 == <<"1", "8", ":", "0", "0">>

CuerposValvula ==
    { SinCuerpo,
      Json(PyDict(<<>>)),
      Json(PyList(<<PyStr(on)>>)),
      Json(PyDict([estado |-> PyStr(<<"O", "N">>)])),
      Json(PyDict([estado |-> PyStr(off)])),
      Json(PyDict([estado |-> PyStr(<<"A", "u", "t", "o">>)])),
      Json(PyDict([estado |-> PyStr(<<"m", "a", "y", "b", "e">>)])),
      Json(PyDict([estado |-> PyInt(5)])),
      Json(PyDict([otro |-> PyStr(on)])) }

CuerposProgramacion ==
    { SinCuerpo,
      Json(PyDict([on |-> PyStr(hora1), off |-> PyStr(hora2)])),
      Json(PyDict([on |-> PyStr(hora2), off |-> PyInt(7)])),
      Json(PyDict([on |-> PyStr(hora1)])),
      Json(PyDict([on |-> PyStr(hora1), off |-> PyStr(<<>>)])),
      Json(PyList(<<PyStr(hora1), PyStr(hora2)>>)) }

\* f"{block_id}-{num}"
Clave(block_id, num) == block_id \o <<"-">> \o num

CuerposReporte ==
    { SinCuerpo,
      Json(PyDict(<<>>)),
      Json(PyDict([valvulas |-> PyList(<<PyStr(on)>>)])),
      Json(PyDict([valvulas |-> PyDict(
          Clave(block1, Str(1)) :> PyStr(on) @@
          Clave(block3, Str(5)) :> PyStr(auto))])),
      Json(PyDict([valvulas |-> PyDict(
          Clave(block1, Str(5)) :> PyStr(<<"m", "a", "y", "b", "e">>) @@
          Clave(block3, Str(1)) :> PyInt(5))])),
      Json(PyDict([valvulas |-> PyDict(
          Clave(block9, Str(1)) :> PyStr(on) @@
          Clave(block1, Str(6)) :> PyStr(on) @@
          block1 :> PyStr(on) @@
          Clave(Clave(block1, Str(1)), Str(1)) :> PyStr(on) @@
          Clave(block3, <<>>) :> PyStr(on) @@
          Clave(block3, Str(5)) :> PyStr(off))])) }

\* os.environ.get('USUARIO_ADMIN', 'admin')
USUARIO_ADMIN == <<"a", "d", "m", "i", "n">>

\* os.environ.get('CONTRASENA_ADMIN', '1234')
CONTRASENA_ADMIN == <<"1", "2", "3", "4">>

CuerposLogin ==
    { SinCuerpo,
      Json(PyList(<<PyStr(USUARIO_ADMIN)>>)),
      Json(PyDict([usuario |-> PyStr(USUARIO_ADMIN),
                   contrasena |-> PyStr(CONTRASENA_ADMIN)])),
      Json(PyDict([usuario |-> PyStr(USUARIO_ADMIN),
                   contrasena |-> PyInt(1234)])),
      Json(PyDict([usuario |-> PyStr(USUARIO_ADMIN)])) }

(***************************************************************************)
(* The handlers' effects on estados_globales                               *)
(***************************************************************************)
\* estados[block_id][clave][campo] = valor
PonerCampo(estados, block_id, clave, campo, valor) ==
    [estados EXCEPT ![block_id][clave] = Poner(@, campo, valor)]

\* set_valvula: nuevo_estado = datos.get('estado', '').lower()
NuevoEstado(texto) == Lower(texto)

\* set_valvula that also clears the valve's schedule
ActualizarEstado_BorraProgramacion(estados, block_id, clave, nuevo_estado, t) ==
    PonerCampo(
        PonerCampo(
            PonerCampo(estados, block_id, clave, "estado", PyStr(nuevo_estado)),
            block_id, clave, "programacion", None),
        block_id, clave, "ultima_actualizacion", IsoFormat(t))

\* set_valvula that toggles: asking for the estado the valve already has
\* switches it off
ActualizarEstado_Alterna(estados, block_id, clave, nuevo_estado, t) ==
    PonerCampo(
        PonerCampo(estados, block_id, clave, "estado",
                   IF estados[block_id][clave]["estado"] = PyStr(nuevo_estado)
                   THEN PyStr(off)
                   ELSE PyStr(nuevo_estado)),
        block_id, clave, "ultima_actualizacion", IsoFormat(t))

\* set_valvula that stamps the valve without storing the new estado
ActualizarEstado_SoloSello(estados, block_id, clave, nuevo_estado, t) ==
    PonerCampo(estados, block_id, clave, "ultima_actualizacion", IsoFormat(t))

\* set_valvula: the two assignments
ActualizarEstado(estados, block_id, clave, nuevo_estado, t) ==
    PonerCampo(
        PonerCampo(estados, block_id, clave, "estado", PyStr(nuevo_estado)),
        block_id, clave, "ultima_actualizacion", IsoFormat(t))

\* set_programacion that stores the schedule without forcing estado
ActualizarProgramacion_SinAuto(estados, block_id, clave, hora_on, hora_off, t) ==
    PonerCampo(
        PonerCampo(estados, block_id, clave, "programacion",
                   PyDict([on |-> hora_on, off |-> hora_off])),
        block_id, clave, "ultima_actualizacion", IsoFormat(t))

\* set_programacion: the three assignments
ActualizarProgramacion(estados, block_id, clave, hora_on, hora_off, t) ==
    PonerCampo(
        PonerCampo(
            PonerCampo(estados, block_id, clave, "programacion",
                       PyDict([on |-> hora_on, off |-> hora_off])),
            block_id, clave, "estado", PyStr(auto)),
        block_id, clave, "ultima_actualizacion", IsoFormat(t))

\* delete_programacion that clears the schedule without resetting estado
LimpiarProgramacion_SinOff(estados, block_id, clave, t) ==
    PonerCampo(
        PonerCampo(estados, block_id, clave, "programacion", None),
        block_id, clave, "ultima_actualizacion", IsoFormat(t))

\* delete_programacion: the three assignments
LimpiarProgramacion(estados, block_id, clave, t) ==
    PonerCampo(
        PonerCampo(
            PonerCampo(estados, block_id, clave, "programacion", None),
            block_id, clave, "estado", PyStr(off)),
        block_id, clave, "ultima_actualizacion", IsoFormat(t))

\* set_estado_esp32 iteration that also clears the valve's schedule
AplicarEntrada_BorraProgramacion(estados, clave, estado) ==
    LET partes == Split(clave, "-")
    IN  IF Len(partes) = 2
        THEN IF partes[1] \in DOMAIN estados
             THEN IF partes[2] \in DOMAIN estados[partes[1]]
                  THEN PonerCampo(
                           PonerCampo(estados, partes[1], partes[2],
                                      "estado", estado),
                           partes[1], partes[2], "programacion", None)
                  ELSE estados
             ELSE estados
        ELSE estados

\* set_estado_esp32 iteration that checks the block only and creates the
\* valve entry when it is missing
AplicarEntrada_SinComprobarNum(estados, clave, estado) ==
    LET partes == Split(clave, "-")
    IN  IF Len(partes) = 2
        THEN IF partes[1] \in DOMAIN estados
             THEN [estados EXCEPT ![partes[1]] =
                      Poner(@, partes[2],
                            Poner(Get(@, partes[2], <<>>), "estado", estado))]
             ELSE estados
        ELSE estados

\* set_estado_esp32: one iteration of the loop over valvulas_esp32.items()
AplicarEntrada(estados, clave, estado) ==
    LET partes == Split(clave, "-")
    IN  IF Len(partes) = 2
        THEN IF partes[1] \in DOMAIN estados
             THEN IF partes[2] \in DOMAIN estados[partes[1]]
                  THEN PonerCampo(estados, partes[1], partes[2], "estado", estado)
                  ELSE estados
             ELSE estados
        ELSE estados

RECURSIVE AplicarReporte(_, _, _)
\* set_estado_esp32: the loop, over the keys not yet visited
AplicarReporte(estados, valvulas, claves) ==
    IF claves = {}
    THEN estados
    ELSE LET c == CHOOSE k \in claves : TRUE
         IN  AplicarReporte(AplicarEntrada(estados, c, valvulas[c]),
                            valvulas, claves \ {c})

\* get_estado_esp32 that builds its keys without the dash
valvulas_esp32_SinGuion(estados) ==
    LET pares == UNION {{<<b, n>> : n \in DOMAIN estados[b]} : b \in DOMAIN estados}
    IN  [c \in {p[1] \o p[2] : p \in pares} |->
            LET p == CHOOSE q \in pares : q[1] \o q[2] = c
            IN  estados[p[1]][p[2]]["estado"]]

\* get_estado_esp32: the flat map "<block_id>-<num>" -> estado
valvulas_esp32(estados) ==
    LET pares == UNION {{<<b, n>> : n \in DOMAIN estados[b]} : b \in DOMAIN estados}
    IN  [c \in {Clave(p[1], p[2]) : p \in pares} |->
            LET p == CHOOSE q \in pares : Clave(q[1], q[2]) = c
            IN  estados[p[1]][p[2]]["estado"]]

(***************************************************************************)
(* State machine                                                           *)
(***************************************************************************)
\* module import: estados_globales = cargar_estados(), no file yet
Init ==
    /\ \E c \in cargar_estados(NoExiste) :
          /\ estados_globales = c[1]
          /\ archivo = c[2]
          /\ guardado = c[3]
    /\ peticion = [op |-> "inicio"]
    /\ respuesta = [status |-> 0]
    /\ reloj = 0
    /\ activo = 1
    /\ otra = <<>>
    /\ hilos = <<>>

\* a response that leaves the map and the file as they were
Responder(status, cuerpo) ==
    /\ respuesta' = [status |-> status, cuerpo |-> cuerpo]
    /\ guardado' = "ninguno"
    /\ UNCHANGED <<estados_globales, archivo>>

\* the in-memory map becomes nuevos, guardar_estados(nuevos) runs, and the
\* handler answers 200 whatever the save returned
GuardarYResponder(nuevos, cuerpo) ==
    \E g \in guardar_estados(archivo, nuevos) :
        /\ estados_globales' = nuevos
        /\ archivo' = g[2]
        /\ guardado' = Guardado(g)
        /\ respuesta' = [status |-> 200, cuerpo |-> cuerpo]

Recibir(p) ==
    /\ reloj < MaxReloj
    /\ reloj' = reloj + 1
    /\ peticion' = p
    /\ UNCHANGED <<activo, otra, hilos>>

Error500 == Responder(500, [error |-> "excepcion"])

get_bloque(block_id) ==
    /\ Recibir([op |-> "get_bloque", block_id |-> block_id])
    /\ IF block_id \notin DOMAIN estados_globales
       THEN Responder(404, [error |-> "Bloque no existe",
                            bloques_disponibles |-> DOMAIN estados_globales])
       ELSE Responder(200, [block_id |-> block_id,
                            timestamp |-> IsoFormat(reloj),
                            valvulas |-> estados_globales[block_id]])

\* get_valvula that evaluates the schedule: a valve in auto that has one
\* is switched on
get_valvula_EvaluaProgramacion(block_id, num) ==
    /\ Recibir([op |-> "get_valvula", block_id |-> block_id, num |-> num])
    /\ IF block_id \notin DOMAIN estados_globales
       THEN Responder(404, [error |-> "Bloque no existe"])
       ELSE IF Str(num) \notin DOMAIN estados_globales[block_id]
       THEN Responder(404, [error |-> "Valvula no existe"])
       ELSE LET valvula == estados_globales[block_id][Str(num)]
            IN  /\ respuesta' =
                      [status |-> 200,
                       cuerpo |-> [block_id |-> block_id,
                                   num |-> num,
                                   estado |-> valvula["estado"],
                                   programacion |-> valvula["programacion"],
                                   timestamp |-> IsoFormat(reloj)]]
                /\ guardado' = "ninguno"
                /\ estados_globales' =
                      IF /\ valvula["estado"] = PyStr(auto)
                         /\ valvula["programacion"] # None
                      THEN PonerCampo(estados_globales, block_id, Str(num),
                                      "estado", PyStr(on))
                      ELSE estados_globales
                /\ UNCHANGED archivo

get_valvula(block_id, num) ==
    /\ Recibir([op |-> "get_valvula", block_id |-> block_id, num |-> num])
    /\ IF block_id \notin DOMAIN estados_globales
       THEN Responder(404, [error |-> "Bloque no existe"])
       ELSE IF Str(num) \notin DOMAIN estados_globales[block_id]
       THEN Responder(404, [error |-> "Valvula no existe"])
       ELSE LET valvula == estados_globales[block_id][Str(num)]
            IN  Responder(200, [block_id |-> block_id,
                                num |-> num,
                                estado |-> valvula["estado"],
                                programacion |-> valvula["programacion"],
                                timestamp |-> IsoFormat(reloj)])

set_valvula(block_id, num, cuerpo) ==
    /\ Recibir([op |-> "set_valvula", block_id |-> block_id, num |-> num,
                cuerpo |-> cuerpo])
    /\ IF block_id \notin DOMAIN estados_globales
       THEN Responder(404, [error |-> "Bloque no existe"])
       ELSE IF Str(num) \notin DOMAIN estados_globales[block_id]
       THEN Responder(404, [error |-> "Valvula no existe"])
       ELSE \E datos \in get_json(cuerpo) :
            IF datos = Raise
            THEN Error500
            ELSE IF ~Truthy(datos)
            THEN Responder(400, [error |-> "No se recibieron datos JSON"])
            ELSE IF ~EsDict(datos)
            THEN Error500   \* datos.get: AttributeError
            ELSE LET estado == Get(datos[2], "estado", PyStr(<<>>))
                 IN  IF ~EsStr(estado)
                     THEN Error500   \* .lower(): AttributeError
                     ELSE LET nuevo_estado == NuevoEstado(estado[2])
                          IN  IF nuevo_estado \notin {on, off, auto}
                              THEN Responder(400,
                                       [error |-> "Estado invalido",
                                        estados_validos |-> <<on, off, auto>>])
                              ELSE GuardarYResponder(
                                       ActualizarEstado(estados_globales,
                                           block_id, Str(num), nuevo_estado, reloj),
                                       [block_id |-> block_id,
                                        num |-> num,
                                        estado |-> PyStr(nuevo_estado),
                                        timestamp |-> IsoFormat(reloj)])

set_programacion(block_id, num, cuerpo) ==
    /\ Recibir([op |-> "set_programacion", block_id |-> block_id, num |-> num,
                cuerpo |-> cuerpo])
    /\ IF block_id \notin DOMAIN estados_globales
       THEN Responder(404, [error |-> "Bloque no existe"])
       ELSE IF Str(num) \notin DOMAIN estados_globales[block_id]
       THEN Responder(404, [error |-> "Valvula no existe"])
       ELSE \E datos \in get_json(cuerpo) :
            IF datos = Raise
            THEN Error500
            ELSE IF ~Truthy(datos)
            THEN Responder(400, [error |-> "No se recibieron datos JSON"])
            ELSE IF ~EsDict(datos)
            THEN Error500   \* datos.get: AttributeError
            ELSE LET hora_on  == Get(datos[2], "on", None)
                     hora_off == Get(datos[2], "off", None)
                 IN  IF ~Truthy(hora_on) \/ ~Truthy(hora_off)
                     THEN Responder(400,
                              [error |-> "Debe proporcionar horas 'on' y 'off'"])
                     ELSE LET nuevos == ActualizarProgramacion(estados_globales,
                                            block_id, Str(num), hora_on, hora_off,
                                            reloj)
                          IN  GuardarYResponder(nuevos,
                                  [block_id |-> block_id,
                                   num |-> num,
                                   programacion |->
                                       nuevos[block_id][Str(num)]["programacion"],
                                   timestamp |-> IsoFormat(reloj)])

\* delete_programacion that checks the block and not the valve number
delete_programacion_SinComprobarNum(block_id, num) ==
    /\ Recibir([op |-> "delete_programacion", block_id |-> block_id,
                num |-> num])
    /\ IF block_id \notin DOMAIN estados_globales
       THEN Responder(404, [error |-> "Bloque no existe"])
       ELSE GuardarYResponder(
                [estados_globales EXCEPT ![block_id] =
                    Poner(@, Str(num),
                          [estado |-> PyStr(off), programacion |-> None,
                           ultima_actualizacion |-> IsoFormat(reloj)])],
                [block_id |-> block_id,
                 num |-> num,
                 timestamp |-> IsoFormat(reloj)])

delete_programacion(block_id, num) ==
    /\ Recibir([op |-> "delete_programacion", block_id |-> block_id,
                num |-> num])
    /\ IF block_id \notin DOMAIN estados_globales
       THEN Responder(404, [error |-> "Bloque no existe"])
       ELSE IF Str(num) \notin DOMAIN estados_globales[block_id]
       THEN Responder(404, [error |-> "Valvula no existe"])
       ELSE GuardarYResponder(
                LimpiarProgramacion(estados_globales, block_id, Str(num), reloj),
                [block_id |-> block_id,
                 num |-> num,
                 timestamp |-> IsoFormat(reloj)])

get_estado_esp32 ==
    /\ Recibir([op |-> "get_estado_esp32"])
    /\ Responder(200, [valvulas |-> valvulas_esp32(estados_globales),
                       timestamp |-> IsoFormat(reloj)])

set_estado_esp32(cuerpo) ==
    /\ Recibir([op |-> "set_estado_esp32", cuerpo |-> cuerpo])
    /\ \E datos \in get_json(cuerpo) :
            IF datos = Raise
            THEN Error500
            ELSE IF ~EsDict(datos)
            THEN Error500   \* datos.get: AttributeError
            ELSE LET valvulas == Get(datos[2], "valvulas", PyDict(<<>>))
                 IN  IF ~EsDict(valvulas)
                     THEN Error500   \* .items(): AttributeError
                     ELSE GuardarYResponder(
                              AplicarReporte(estados_globales, valvulas[2],
                                             DOMAIN valvulas[2]),
                              [status |-> "ok",
                               timestamp |-> IsoFormat(reloj)])

health ==
    /\ Recibir([op |-> "health"])
    /\ Responder(200,
           [status |-> "ok",
            timestamp |-> IsoFormat(reloj),
            bloques_disponibles |-> DOMAIN estados_globales,
            total_valvulas |->
                Cardinality(UNION {{<<b, n>> : n \in DOMAIN estados_globales[b]} :
                                   b \in DOMAIN estados_globales})])

login(cuerpo) ==
    /\ Recibir([op |-> "login", cuerpo |-> cuerpo])
    /\ \E datos \in get_json(cuerpo) :
            IF datos = Raise
            THEN Responder(500, [ok |-> FALSE, mensaje |-> "Error interno"])
            ELSE IF ~Truthy(datos)
            THEN Responder(400, [ok |-> FALSE,
                                 mensaje |-> "No se recibieron datos"])
            ELSE IF ~EsDict(datos)
            THEN Responder(500, [ok |-> FALSE, mensaje |-> "Error interno"])
            ELSE LET usuario    == Get(datos[2], "usuario", PyStr(<<>>))
                     contrasena == Get(datos[2], "contrasena", PyStr(<<>>))
                 IN  IF /\ usuario = PyStr(USUARIO_ADMIN)
                        /\ contrasena = PyStr(CONTRASENA_ADMIN)
                     THEN Responder(200,
                              [ok |-> TRUE,
                               mensaje |-> "Login exitoso",
                               token |-> PyStr(usuario[2] \o <<"-">> \o Str(reloj)),
                               usuario |-> usuario])
                     ELSE Responder(401,
                              [ok |-> FALSE,
                               mensaje |-> "Usuario o contrasena incorrectos"])

index ==
    /\ Recibir([op |-> "index"])
    /\ Responder(200, [html |-> "index.html"])

get_server_time ==
    /\ Recibir([op |-> "get_server_time"])
    /\ Responder(200, [utc |-> IsoFormat(reloj), utc_time |-> IsoFormat(reloj)])

\* the process is restarted: the module is imported again
Reiniciar ==
    /\ \E c \in cargar_estados(archivo) :
          /\ estados_globales' = c[1]
          /\ archivo' = c[2]
          /\ guardado' = c[3]
    /\ peticion' = [op |-> "inicio"]
    /\ respuesta' = [status |-> 0]
    /\ UNCHANGED <<reloj, activo, otra, hilos>>

Next ==
    \/ \E b \in BloquesPeticion : get_bloque(b)
    \/ \E b \in BloquesPeticion, n \in NumsPeticion : get_valvula(b, n)
    \/ \E b \in BloquesPeticion, n \in NumsPeticion, c \in CuerposValvula :
          set_valvula(b, n, c)
    \/ \E b \in BloquesPeticion, n \in NumsPeticion, c \in CuerposProgramacion :
          set_programacion(b, n, c)
    \/ \E b \in BloquesPeticion, n \in NumsPeticion : delete_programacion(b, n)
    \/ get_estado_esp32
    \/ \E c \in CuerposReporte : set_estado_esp32(c)
    \/ health
    \/ \E c \in CuerposLogin : login(c)
    \/ index
    \/ get_server_time
    \/ Reiniciar

Spec == Init /\ [][Next]_vars

(***************************************************************************)
(* Two server processes that share estados.json                            *)
(***************************************************************************)
\* the two processes import the module one after the other
InitProcesos ==
    /\ \E c1 \in cargar_estados(NoExiste) :
          \E c2 \in cargar_estados(c1[2]) :
              /\ estados_globales = c1[1]
              /\ guardado = c1[3]
              /\ otra = [estados_globales |-> c2[1],
                         peticion |-> [op |-> "inicio"],
                         respuesta |-> [status |-> 0],
                         guardado |-> c2[3]]
              /\ archivo = c2[2]
    /\ peticion = [op |-> "inicio"]
    /\ respuesta = [status |-> 0]
    /\ reloj = 0
    /\ activo = 1
    /\ hilos = <<>>

\* the next request is served by the other process
CambiarProceso ==
    /\ activo' = 3 - activo
    /\ estados_globales' = otra.estados_globales
    /\ peticion' = otra.peticion
    /\ respuesta' = otra.respuesta
    /\ guardado' = otra.guardado
    /\ otra' = [estados_globales |-> estados_globales,
                peticion |-> peticion,
                respuesta |-> respuesta,
                guardado |-> guardado]
    /\ UNCHANGED <<archivo, reloj, hilos>>

\* the requests the two processes receive: accepted mutations of two valves
\* and the reads of those valves
BloquesProcesos == {block1, block3}

NumsProcesos == {5}

CuerposValvulaProcesos ==
    { Json(PyDict([estado |-> PyStr(<<"O", "N">>)])),
      Json(PyDict([estado |-> PyStr(off)])) }

CuerposProgramacionProcesos ==
    { Json(PyDict([on |-> PyStr(hora1), off |-> PyStr(hora2)])) }

CuerposReporteProcesos ==
    { Json(PyDict([valvulas |-> PyDict(
          Clave(block1, Str(1)) :> PyStr(on) @@
          Clave(block3, Str(5)) :> PyStr(auto))])) }

NextProcesos ==
    \/ \E b \in BloquesProcesos, n \in NumsProcesos : get_valvula(b, n)
    \/ \E b \in BloquesProcesos, n \in NumsProcesos,
          c \in CuerposValvulaProcesos : set_valvula(b, n, c)
    \/ \E b \in BloquesProcesos, n \in NumsProcesos,
          c \in CuerposProgramacionProcesos : set_programacion(b, n, c)
    \/ \E b \in BloquesProcesos, n \in NumsProcesos : delete_programacion(b, n)
    \/ \E c \in CuerposReporteProcesos : set_estado_esp32(c)
    \/ CambiarProceso

SpecProcesos == InitProcesos /\ [][NextProcesos]_vars

(***************************************************************************)
(* One process that serves its requests on several threads                 *)
(***************************************************************************)
NumHilos == 2

Hilos == 1..NumHilos

\* a thread that has not received a request
HiloLibre ==
    [peticion |-> [op |-> "ninguna"], pasos |-> <<>>, respuesta |-> [status |-> 0]]

\* a thread that answered without writing
HiloError(p, status) ==
    [peticion |-> p, pasos |-> <<>>, respuesta |-> [status |-> status]]

\* a handler that saves before it writes its fields
Pasos_GuardaAntes(p, escrituras) ==
    [peticion |-> p,
     pasos |-> <<<<"guardar">>>> \o escrituras \o <<<<"responder">>>>,
     respuesta |-> [status |-> 0]]

\* the steps an accepted mutating request still has to run: the field
\* assignments in the order of the code, guardar_estados, the response
Pasos(p, escrituras) ==
    [peticion |-> p,
     pasos |-> escrituras \o <<<<"guardar">>, <<"responder">>>>,
     respuesta |-> [status |-> 0]]

Ahora == <<"now">>

Campo(block_id, clave, campo, valor) == <<"campo", block_id, clave, campo, valor>>

RECURSIVE Entradas(_, _)
\* set_estado_esp32: the iterations of the loop, one per key
Entradas(valvulas, claves) ==
    IF claves = {}
    THEN <<>>
    ELSE LET c == CHOOSE k \in claves : TRUE
         IN  <<<<"entrada", c, valvulas[c]>>>> \o Entradas(valvulas, claves \ {c})

\* what a handler does with request p up to its first assignment: the
\* answer of a rejected request, or the steps of an accepted one
Programa(p, datos, estados) ==
    IF p.op = "set_estado_esp32"
    THEN IF datos = Raise \/ ~EsDict(datos)
         THEN HiloError(p, 500)
         ELSE LET valvulas == Get(datos[2], "valvulas", PyDict(<<>>))
              IN  IF ~EsDict(valvulas)
                  THEN HiloError(p, 500)
                  ELSE Pasos(p, Entradas(valvulas[2], DOMAIN valvulas[2]))
    ELSE IF p.block_id \notin DOMAIN estados
    THEN HiloError(p, 404)
    ELSE IF Str(p.num) \notin DOMAIN estados[p.block_id]
    THEN HiloError(p, 404)
    ELSE IF p.op = "delete_programacion"
    THEN Pasos(p, << Campo(p.block_id, Str(p.num), "programacion", None),
                     Campo(p.block_id, Str(p.num), "estado", PyStr(off)),
                     Campo(p.block_id, Str(p.num), "ultima_actualizacion", Ahora) >>)
    ELSE IF datos = Raise
    THEN HiloError(p, 500)
    ELSE IF ~Truthy(datos)
    THEN HiloError(p, 400)
    ELSE IF ~EsDict(datos)
    THEN HiloError(p, 500)
    ELSE IF p.op = "set_valvula"
    THEN LET estado == Get(datos[2], "estado", PyStr(<<>>))
         IN  IF ~EsStr(estado)
             THEN HiloError(p, 500)
             ELSE IF NuevoEstado(estado[2]) \notin {on, off, auto}
             THEN HiloError(p, 400)
             ELSE Pasos(p,
                      << Campo(p.block_id, Str(p.num), "estado",
                               PyStr(NuevoEstado(estado[2]))),
                         Campo(p.block_id, Str(p.num), "ultima_actualizacion",
                               Ahora) >>)
    ELSE LET hora_on  == Get(datos[2], "on", None)
             hora_off == Get(datos[2], "off", None)
         IN  IF ~Truthy(hora_on) \/ ~Truthy(hora_off)
             THEN HiloError(p, 400)
             ELSE Pasos(p,
                      << Campo(p.block_id, Str(p.num), "programacion",
                               PyDict([on |-> hora_on, off |-> hora_off])),
                         Campo(p.block_id, Str(p.num), "estado", PyStr(auto)),
                         Campo(p.block_id, Str(p.num), "ultima_actualizacion",
                               Ahora) >>)

\* the requests the threads receive
PeticionesHilos ==
    { [op |-> "set_valvula", block_id |-> block1, num |-> 5,
       cuerpo |-> Json(PyDict([estado |-> PyStr(<<"O", "N">>)]))],
      [op |-> "set_valvula", block_id |-> block9, num |-> 5,
       cuerpo |-> Json(PyDict([estado |-> PyStr(on)]))],
      [op |-> "set_programacion", block_id |-> block3, num |-> 5,
       cuerpo |-> Json(PyDict([on |-> PyStr(hora1), off |-> PyStr(hora2)]))],
      [op |-> "delete_programacion", block_id |-> block3, num |-> 5,
       cuerpo |-> SinCuerpo],
      [op |-> "set_estado_esp32",
       cuerpo |-> Json(PyDict([valvulas |-> PyDict(
           Clave(block1, Str(1)) :> PyStr(on) @@
           Clave(block3, Str(5)) :> PyStr(auto))]))] }

\* the process started with no file and its first save succeeded
InitHilos ==
    /\ \E c \in cargar_estados(NoExiste) :
          /\ c[3] = "ok"
          /\ estados_globales = c[1]
          /\ archivo = c[2]
          /\ guardado = c[3]
    /\ peticion = [op |-> "inicio"]
    /\ respuesta = [status |-> 0]
    /\ reloj = 0
    /\ activo = 1
    /\ otra = <<>>
    /\ hilos = [h \in Hilos |-> HiloLibre]

\* thread h takes a request and runs its handler up to the first assignment
HiloRecibe(h, p) ==
    /\ hilos[h] = HiloLibre
    /\ reloj' = reloj + 1
    /\ \E datos \in get_json(p.cuerpo) :
          hilos' = [hilos EXCEPT ![h] = Programa(p, datos, estados_globales)]
    /\ UNCHANGED <<estados_globales, archivo, peticion, respuesta, guardado,
                   activo, otra>>

\* thread h runs one assignment into the shared map
HiloEscribe(h) ==
    /\ hilos[h].pasos # <<>>
    /\ LET paso == Head(hilos[h].pasos)
       IN  /\ paso[1] \in {"campo", "entrada"}
           /\ estados_globales' =
                 IF paso[1] = "entrada"
                 THEN AplicarEntrada(estados_globales, paso[2], paso[3])
                 ELSE PonerCampo(estados_globales, paso[2], paso[3], paso[4],
                                 IF paso[5] = Ahora
                                 THEN IsoFormat(reloj - 1)
                                 ELSE paso[5])
    /\ hilos' = [hilos EXCEPT ![h].pasos = Tail(@)]
    /\ UNCHANGED <<archivo, peticion, respuesta, guardado, reloj, activo, otra>>

\* thread h runs guardar_estados, which writes the whole shared map in one
\* step and succeeds
HiloGuarda(h) ==
    /\ hilos[h].pasos # <<>>
    /\ Head(hilos[h].pasos)[1] = "guardar"
    /\ \E g \in guardar_estados(archivo, estados_globales) :
          /\ g[1]
          /\ archivo' = g[2]
    /\ hilos' = [hilos EXCEPT ![h].pasos = Tail(@)]
    /\ UNCHANGED <<estados_globales, peticion, respuesta, guardado, reloj,
                   activo, otra>>

\* thread h builds its 200 response; set_programacion reads the schedule
\* back from the shared map
HiloResponde(h) ==
    /\ hilos[h].pasos # <<>>
    /\ Head(hilos[h].pasos)[1] = "responder"
    /\ hilos' = [hilos EXCEPT
                    ![h].pasos = Tail(@),
                    ![h].respuesta =
                        IF hilos[h].peticion.op = "set_programacion"
                        THEN [status |-> 200,
                              programacion |->
                                  estados_globales[hilos[h].peticion.block_id]
                                      [Str(hilos[h].peticion.num)]["programacion"]]
                        ELSE [status |-> 200]]
    /\ UNCHANGED <<estados_globales, archivo, peticion, respuesta, guardado,
                   reloj, activo, otra>>

NextHilos ==
    \/ \E h \in Hilos, p \in PeticionesHilos : HiloRecibe(h, p)
    \/ \E h \in Hilos : HiloEscribe(h)
    \/ \E h \in Hilos : HiloGuarda(h)
    \/ \E h \in Hilos : HiloResponde(h)

SpecHilos == InitHilos /\ [][NextHilos]_vars

TypeOK ==
    /\ reloj \in 0..MaxReloj
    /\ guardado \in {"ninguno", "ok", "fallo"}
    /\ archivo[1] \in {"noexiste", "parcial", "json"}

(***************************************************************************)
(* Properties                                                              *)
(***************************************************************************)
Bloques == {block1, block2, block3}

EstadosValidos == {PyStr(on), PyStr(off), PyStr(auto)}

Mutadoras ==
    {"set_valvula", "set_programacion", "delete_programacion", "set_estado_esp32"}

\* the valve a request path names exists in the map
ValvulaExiste(p, estados) ==
    /\ p.block_id \in DOMAIN estados
    /\ Str(p.num) \in DOMAIN estados[p.block_id]

\* the valve dict a request path names
ValvulaDe(p, estados) == estados[p.block_id][Str(p.num)]

\* p is a GET of the valve that the request q named
GetDeLaMisma(p, q) ==
    /\ p.op = "get_valvula"
    /\ p.block_id = q.block_id
    /\ p.num = q.num

\* C1: if POST /api/valvula/b/n with estado = s (any letter case) returns
\* 200, a GET /api/valvula/b/n issued next returns 200 with estado equal to
\* the lowercase s.
C1_GetTrasPost ==
    [][(/\ peticion.op = "set_valvula"
        /\ respuesta.status = 200
        /\ GetDeLaMisma(peticion', peticion))
       => (/\ respuesta'.status = 200
           /\ respuesta'.cuerpo.estado =
                  PyStr(Lower(peticion.cuerpo[2][2].estado[2]))
           /\ respuesta'.cuerpo.estado \in EstadosValidos)]_vars

\* a GET answered "on" for a valve stamped by the request just before it:
\* that request was the POST of estado "ON"
C1_Testigo ==
    /\ peticion.op = "get_valvula"
    /\ respuesta.status = 200
    /\ respuesta.cuerpo.estado = PyStr(on)
    /\ reloj >= 2
    /\ Get(ValvulaDe(peticion, estados_globales), "ultima_actualizacion", None)
           = IsoFormat(reloj - 2)

\* C2: the estado of every valve is one of on, off, auto in every reachable
\* state.
C2_EstadoEnum ==
    \A b \in DOMAIN estados_globales :
        \A n \in DOMAIN estados_globales[b] :
            estados_globales[b][n]["estado"] \in EstadosValidos

\* the body of a set_programacion request carries truthy on and off
ProgramacionValida(p) ==
    /\ p.cuerpo[1] = "json"
    /\ EsDict(p.cuerpo[2])
    /\ Truthy(Get(p.cuerpo[2][2], "on", None))
    /\ Truthy(Get(p.cuerpo[2][2], "off", None))

\* the schedule dict a valid set_programacion body asks for
ProgramacionPedida(p) ==
    PyDict([on |-> p.cuerpo[2][2].on, off |-> p.cuerpo[2][2].off])

\* C3: POST .../programacion with truthy on and off for an existing valve
\* returns 200, stores {on, off} as given and sets estado to auto; a GET of
\* that valve issued next returns that schedule and estado auto.
C3_Programacion ==
    [][/\ (/\ peticion'.op = "set_programacion"
           /\ ValvulaExiste(peticion', estados_globales)
           /\ ProgramacionValida(peticion'))
          => (/\ respuesta'.status = 200
              /\ respuesta'.cuerpo.programacion = ProgramacionPedida(peticion')
              /\ ValvulaDe(peticion', estados_globales')["programacion"]
                     = ProgramacionPedida(peticion')
              /\ ValvulaDe(peticion', estados_globales')["estado"] = PyStr(auto))
       /\ (/\ peticion.op = "set_programacion"
           /\ respuesta.status = 200
           /\ GetDeLaMisma(peticion', peticion))
          => (/\ respuesta'.status = 200
              /\ respuesta'.cuerpo.programacion = ProgramacionPedida(peticion)
              /\ respuesta'.cuerpo.estado = PyStr(auto))]_vars

\* a GET answered with the schedule {on: "18:00", off: 7} and estado auto
\* for a valve stamped by the request just before it
C3_Testigo ==
    /\ peticion.op = "get_valvula"
    /\ respuesta.status = 200
    /\ respuesta.cuerpo.estado = PyStr(auto)
    /\ respuesta.cuerpo.programacion =
           PyDict([on |-> PyStr(hora2), off |-> PyInt(7)])
    /\ reloj >= 2
    /\ ValvulaDe(peticion, estados_globales)["ultima_actualizacion"]
           = IsoFormat(reloj - 2)

\* C4: DELETE .../programacion on an existing valve returns 200 and leaves
\* the valve with programacion None and estado off, whatever they were.
C4_Borrado ==
    [][(/\ peticion'.op = "delete_programacion"
        /\ ValvulaExiste(peticion', estados_globales))
       => (/\ respuesta'.status = 200
           /\ ValvulaDe(peticion', estados_globales')["programacion"] = None
           /\ ValvulaDe(peticion', estados_globales')["estado"] = PyStr(off))]_vars

\* a DELETE has just cleared a valve that was scheduled one request earlier
C4_Testigo ==
    /\ peticion.op = "delete_programacion"
    /\ respuesta.status = 200
    /\ reloj = 2
    /\ archivo[1] = "json"
    /\ archivo[2][peticion.block_id][Str(peticion.num)]["programacion"][1]
           = "object"
    /\ guardado = "fallo"
    /\ ValvulaDe(peticion, estados_globales)["programacion"] = None
    /\ ValvulaDe(peticion, estados_globales)["estado"] = PyStr(off)

\* the body of a set_valvula request is a JSON object whose estado is
\* missing or does not normalize to on, off or auto
EstadoInvalido(p) ==
    /\ p.cuerpo[1] = "json"
    /\ EsDict(p.cuerpo[2])
    /\ LET e == Get(p.cuerpo[2][2], "estado", None)
       IN  \/ ~EsStr(e)
           \/ Lower(e[2]) \notin {on, off, auto}

\* C5: POST /api/valvula/b/n on an existing valve with no estado field or an
\* estado of any JSON type that does not normalize to on, off or auto
\* returns 400 and leaves the map and the file as they were.
C5_EstadoInvalido ==
    [][(/\ peticion'.op = "set_valvula"
        /\ ValvulaExiste(peticion', estados_globales)
        /\ EstadoInvalido(peticion'))
       => (/\ respuesta'.status = 400
           /\ estados_globales' = estados_globales
           /\ archivo' = archivo)]_vars

\* the file holds exactly the in-memory map
ArchivoIgualMemoria ==
    /\ archivo[1] = "json"
    /\ LoadEstados(archivo[2]) = estados_globales

\* C6 as stated: after any mutating request returns 200 the persisted
\* document is identical to the in-memory state.
C6_Original ==
    (peticion.op \in Mutadoras /\ respuesta.status = 200) => ArchivoIgualMemoria

\* C6: after a mutating request returns 200 and its save step succeeded, the
\* persisted document is identical to the in-memory state.
C6_ArchivoIgual ==
    (peticion.op \in Mutadoras /\ respuesta.status = 200 /\ guardado = "ok")
        => ArchivoIgualMemoria

\* a schedule was set and saved over a file that held the previous,
\* different state
C6_Testigo ==
    /\ peticion.op = "set_programacion"
    /\ respuesta.status = 200
    /\ guardado = "ok"
    /\ reloj >= 2
    /\ \E b \in Bloques : \E n \in ClavesValvula :
          /\ <<b, n>> # <<peticion.block_id, Str(peticion.num)>>
          /\ "ultima_actualizacion" \in DOMAIN estados_globales[b][n]

\* C7: when the save step of a mutating request fails the request still
\* returns 200, the in-memory map carries the mutation, the persisted
\* document keeps its previous content, and a restart at that point loads
\* what the file held before the request.
C7_GuardadoFallido ==
    [][/\ (peticion'.op \in Mutadoras /\ guardado' = "fallo"
              /\ archivo[1] = "json")
          => (/\ respuesta'.status = 200
              /\ archivo' = archivo
              /\ peticion'.op = "delete_programacion"
                    => ValvulaDe(peticion', estados_globales')["estado"]
                           = PyStr(off)
              /\ peticion'.op = "set_programacion"
                    => ValvulaDe(peticion', estados_globales')["estado"]
                           = PyStr(auto)
              /\ peticion'.op = "set_valvula"
                    => ValvulaDe(peticion', estados_globales')["estado"]
                           = PyStr(Lower(peticion'.cuerpo[2][2].estado[2])))
       /\ (/\ peticion.op \in Mutadoras \ {"set_estado_esp32"}
           /\ guardado = "fallo"
           /\ peticion'.op = "inicio")
          => \A b \in Bloques : \A n \in ClavesValvula :
                Get(estados_globales'[b][n], "ultima_actualizacion", None)
                    # respuesta.cuerpo.timestamp]_vars

\* C8: restart round trip: when the file holds a successful save of the
\* in-memory map S, a restart yields a map identical to S (estado,
\* programacion and ultima_actualizacion of every valve) and does not
\* rewrite the file.
C8_Reinicio ==
    [][(/\ peticion'.op = "inicio"
        /\ archivo = Documento(DumpEstados(estados_globales)))
       => (/\ estados_globales' = estados_globales
           /\ archivo' = archivo)]_vars

\* a restart has loaded a map in which a valve carries a schedule, a stamp
\* and a reported estado that is not a string
C8_Testigo ==
    /\ peticion.op = "inicio"
    /\ archivo = Documento(DumpEstados(estados_globales))
    /\ \E b \in Bloques : \E n \in ClavesValvula :
          /\ "ultima_actualizacion" \in DOMAIN estados_globales[b][n]
          /\ estados_globales[b][n]["programacion"] # None
    /\ \E b \in Bloques : \E n \in ClavesValvula :
          estados_globales[b][n]["estado"] = PyInt(5)

\* C9: in every reachable state the map has exactly the blocks block1,
\* block2, block3 and each block exactly the valves "1".."5".
C9_Universo ==
    /\ DOMAIN estados_globales = Bloques
    /\ \A b \in Bloques :
          DOMAIN estados_globales[b] = {<<"1">>, <<"2">>, <<"3">>, <<"4">>, <<"5">>}

\* a device report carrying unknown and malformed keys was applied, and
\* changed only the existing valve it named (stamped by an earlier request)
C9_Testigo ==
    /\ peticion.op = "set_estado_esp32"
    /\ respuesta.status = 200
    /\ peticion.cuerpo[1] = "json"
    /\ EsDict(peticion.cuerpo[2])
    /\ "valvulas" \in DOMAIN peticion.cuerpo[2][2]
    /\ EsDict(peticion.cuerpo[2][2].valvulas)
    /\ Clave(block1, Str(6)) \in DOMAIN peticion.cuerpo[2][2].valvulas[2]
    /\ estados_globales[block3][Str(5)]["estado"] = PyStr(off)
    /\ "ultima_actualizacion" \in DOMAIN estados_globales[block3][Str(5)]

\* C10: GET /api/estado-esp32 returns a map with exactly the 15 keys
\* "block{1,2,3}-{1..5}"; as the first request of a fresh default start
\* every value is off, and in every reachable state the value at "b-n" is
\* the estado of valve n of block b.
C10_VistaPlana ==
    peticion.op = "get_estado_esp32"
        => /\ respuesta.status = 200
           /\ DOMAIN respuesta.cuerpo.valvulas
                  = {b \o <<"-">> \o n : b \in Bloques, n \in ClavesValvula}
           /\ Cardinality(DOMAIN respuesta.cuerpo.valvulas) = 15
           /\ \A b \in Bloques : \A n \in ClavesValvula :
                 respuesta.cuerpo.valvulas[b \o <<"-">> \o n]
                     = estados_globales[b][n]["estado"]
           /\ reloj = 1
                 => \A c \in DOMAIN respuesta.cuerpo.valvulas :
                       respuesta.cuerpo.valvulas[c] = PyStr(off)

\* the flat view was served after a device report changed valves of two
\* blocks, to on and to auto
C10_Testigo ==
    /\ peticion.op = "get_estado_esp32"
    /\ respuesta.status = 200
    /\ \E c \in DOMAIN respuesta.cuerpo.valvulas :
          respuesta.cuerpo.valvulas[c] = PyStr(auto)
    /\ \E c \in DOMAIN respuesta.cuerpo.valvulas :
          respuesta.cuerpo.valvulas[c] = PyStr(on)

\* the map without the ultima_actualizacion stamps
SinSellos(estados) ==
    [b \in DOMAIN estados |->
        [n \in DOMAIN estados[b] |->
            [k \in DOMAIN estados[b][n] \ {"ultima_actualizacion"} |->
                estados[b][n][k]]]]

\* the request p repeats the request q
MismaPeticion(p, q) ==
    /\ p.op = q.op
    /\ p.op \in Mutadoras \ {"set_estado_esp32"}
          => (p.block_id = q.block_id /\ p.num = q.num)
    /\ p.op \in Mutadoras \ {"delete_programacion"} => p.cuerpo = q.cuerpo

\* C11: the same valid mutating request issued twice in a row leaves the
\* same map as issuing it once, stamps ignored, and both calls return 200
\* with the same response fields.
C11_Idempotencia ==
    [][(/\ peticion.op \in Mutadoras
        /\ respuesta.status = 200
        /\ MismaPeticion(peticion', peticion))
       => (/\ respuesta'.status = 200
           /\ DOMAIN respuesta'.cuerpo = DOMAIN respuesta.cuerpo
           /\ SinSellos(estados_globales') = SinSellos(estados_globales))]_vars

\* the second of two POSTs of estado "ON" to one valve: the file holds the
\* first one's result (its own save failed at open), the map the second's
C11_Testigo ==
    /\ peticion.op = "set_valvula"
    /\ respuesta.status = 200
    /\ reloj = 2
    /\ guardado = "fallo"
    /\ archivo[1] = "json"
    /\ LoadEstados(archivo[2])[peticion.block_id][Str(peticion.num)]
           = [estado |-> PyStr(on), programacion |-> None,
              ultima_actualizacion |-> IsoFormat(0)]
    /\ ValvulaDe(peticion, estados_globales)
           = [estado |-> PyStr(on), programacion |-> None,
              ultima_actualizacion |-> IsoFormat(1)]

\* the request p names a block or a valve number that the map lacks
DestinoDesconocido(p, estados) ==
    \/ /\ p.op = "get_bloque"
       /\ p.block_id \notin Bloques
    \/ /\ p.op \in {"get_valvula", "set_valvula", "set_programacion",
                    "delete_programacion"}
       /\ \/ p.block_id \notin Bloques
          \/ p.num \notin 1..5

\* C12: every request to a valve or block endpoint that names an unknown
\* block or valve number returns 404 and leaves the map and the file
\* unchanged; the 404 body of GET /api/bloque/{block} lists exactly the
\* three valid block ids.
C12_NoEncontrado ==
    [][DestinoDesconocido(peticion', estados_globales)
       => (/\ respuesta'.status = 404
           /\ estados_globales' = estados_globales
           /\ archivo' = archivo
           /\ peticion'.op = "get_bloque"
                 => respuesta'.cuerpo.bloques_disponibles
                        = {block1, block2, block3})]_vars

\* a DELETE naming valve 6 of an existing block was refused after a request
\* had changed the map
C12_Testigo ==
    /\ peticion.op = "delete_programacion"
    /\ peticion.block_id \in Bloques
    /\ peticion.num = 6
    /\ respuesta.status = 404
    /\ \E b \in Bloques : \E n \in ClavesValvula :
          "ultima_actualizacion" \in DOMAIN estados_globales[b][n]

\* C13: POST /api/estado-esp32 responds 200 for every request, whatever its
\* body.
C13_ReporteSiempre200 ==
    peticion.op = "set_estado_esp32" => respuesta.status = 200

\* the valvulas mapping of a device report that was answered 200
ValvulasDe(p) ==
    IF "valvulas" \in DOMAIN p.cuerpo[2][2]
    THEN p.cuerpo[2][2].valvulas[2]
    ELSE <<>>

\* C14: a device report changes only the estado of the valves named by keys
\* "<block>-<valve>" whose block and valve exist, to the reported value; the
\* programacion and stamp of every valve and the estado of every other
\* valve are unchanged, and the whole resulting map is saved once, after
\* all entries.
C14_ReporteMarco ==
    [][(peticion'.op = "set_estado_esp32" /\ respuesta'.status = 200)
       => (/\ \A b \in Bloques : \A n \in ClavesValvula :
                LET antes   == estados_globales[b][n]
                    despues == estados_globales'[b][n]
                    c       == b \o <<"-">> \o n
                IN  /\ DOMAIN despues = DOMAIN antes
                    /\ \A k \in DOMAIN antes \ {"estado"} :
                          despues[k] = antes[k]
                    /\ despues["estado"] =
                          IF c \in DOMAIN ValvulasDe(peticion')
                          THEN ValvulasDe(peticion')[c]
                          ELSE antes["estado"]
           /\ guardado' \in {"ok", "fallo"}
           /\ guardado' = "ok"
                 => archivo' = Documento(DumpEstados(estados_globales')))]_vars

\* a report that names unknown and malformed keys has switched off valve 5
\* of block3, which keeps the schedule and the stamp it had
C14_Testigo ==
    /\ peticion.op = "set_estado_esp32"
    /\ respuesta.status = 200
    /\ guardado = "ok"
    /\ block1 \in DOMAIN ValvulasDe(peticion)
    /\ estados_globales[block3][Str(5)]
           = [estado |-> PyStr(off),
              programacion |-> PyDict([on |-> PyStr(hora1), off |-> PyStr(hora2)]),
              ultima_actualizacion |-> IsoFormat(0)]

\* the body of a set_programacion request is missing or lacks a truthy on
\* or a truthy off
ProgramacionInvalida(p) ==
    \/ p.cuerpo[1] = "sin_cuerpo"
    \/ /\ p.cuerpo[1] = "json"
       /\ EsDict(p.cuerpo[2])
       /\ \/ ~Truthy(Get(p.cuerpo[2][2], "on", None))
          \/ ~Truthy(Get(p.cuerpo[2][2], "off", None))

\* C15: POST .../programacion on an existing valve with a missing body or
\* without a truthy on or a truthy off returns 400 and leaves the valve's
\* schedule, its estado and the file unchanged.
C15_ProgramacionInvalida ==
    [][(/\ peticion'.op = "set_programacion"
        /\ ValvulaExiste(peticion', estados_globales)
        /\ ProgramacionInvalida(peticion'))
       => (/\ respuesta'.status = 400
           /\ estados_globales' = estados_globales
           /\ archivo' = archivo)]_vars

\* 3 blocks x 5 valves, every estado off, every programacion None
EsDefecto(estados) ==
    /\ DOMAIN estados = Bloques
    /\ \A b \in Bloques :
          /\ DOMAIN estados[b] = {<<"1">>, <<"2">>, <<"3">>, <<"4">>, <<"5">>}
          /\ \A n \in DOMAIN estados[b] :
                estados[b][n] = [estado |-> PyStr(off), programacion |-> None]

\* the document that holds the defaults
DocumentoDefecto ==
    <<"json",
      [b \in Bloques |->
          [n \in {<<"1">>, <<"2">>, <<"3">>, <<"4">>, <<"5">>} |->
              [estado |-> <<"string", off>>, programacion |-> <<"null">>]]]>>

\* C16 as stated: a start without a parseable file leaves the defaults in
\* memory and written to the file; a start with a parseable file loads it
\* and does not write.
C16_Original ==
    /\ (EsDefecto(estados_globales) /\ archivo = DocumentoDefecto)
    /\ [][peticion'.op = "inicio"
          => IF archivo[1] = "json"
             THEN /\ DumpEstados(estados_globales') = archivo[2]
                  /\ archivo' = archivo
             ELSE /\ EsDefecto(estados_globales')
                  /\ archivo' = DocumentoDefecto]_vars

\* C16: a start without a parseable file leaves the defaults in memory and
\* attempts to save them before any request is served: the file holds the
\* defaults if that save succeeds, and is left as it was or truncated if it
\* fails; a start with a parseable file loads it and does not write.
C16_Arranque ==
    /\ (/\ EsDefecto(estados_globales)
        /\ guardado \in {"ok", "fallo"}
        /\ guardado = "ok" => archivo = DocumentoDefecto
        /\ guardado = "fallo" => archivo \in {NoExiste, Parcial})
    /\ [][peticion'.op = "inicio"
          => IF archivo[1] = "json"
             THEN /\ DumpEstados(estados_globales') = archivo[2]
                  /\ archivo' = archivo
                  /\ guardado' = "ninguno"
             ELSE /\ EsDefecto(estados_globales')
                  /\ guardado' \in {"ok", "fallo"}
                  /\ guardado' = "ok" => archivo' = DocumentoDefecto
                  /\ guardado' = "fallo" => archivo' \in {archivo, Parcial}]_vars

\* a restart that followed at least one request found no parseable file,
\* built the defaults and saved them
C16_Testigo ==
    /\ peticion.op = "inicio"
    /\ reloj >= 1
    /\ guardado = "ok"
    /\ archivo = DocumentoDefecto
    /\ EsDefecto(estados_globales)

Consultas ==
    {"get_bloque", "get_valvula", "get_estado_esp32", "health",
     "get_server_time", "login", "index"}

C19_Marco ==
    [][(/\ peticion'.op \in {"set_valvula", "set_programacion",
                             "delete_programacion"}
        /\ respuesta'.status = 200)
       => (/\ \A b \in Bloques : \A n \in ClavesValvula :
                 <<b, n>> # <<peticion'.block_id, Str(peticion'.num)>>
                     => estados_globales'[b][n] = estados_globales[b][n]
           /\ peticion'.op = "set_valvula"
                 => /\ ValvulaDe(peticion', estados_globales')["programacion"]
                           = ValvulaDe(peticion', estados_globales)["programacion"]
                    /\ DOMAIN ValvulaDe(peticion', estados_globales')
                           = {"estado", "programacion", "ultima_actualizacion"})]_vars

\* a valve that was given a schedule and then set to on keeps the schedule
\* while its estado is on: a schedule does not imply auto
C19_Testigo ==
    /\ peticion.op = "set_valvula"
    /\ respuesta.status = 200
    /\ ValvulaDe(peticion, estados_globales)["estado"] = PyStr(on)
    /\ ValvulaDe(peticion, estados_globales)["programacion"]
           = PyDict([on |-> PyStr(hora1), off |-> PyStr(hora2)])

\* C17: with two processes sharing the file, a mutating request that is
\* answered 200 and whose save succeeds leaves in the file exactly the
\* in-memory map of the process that served it, and leaves the other
\* process's map as it was: nothing of the other process's map is merged in.
C17_UltimoEscritor ==
    [][(/\ reloj' # reloj
        /\ peticion'.op \in Mutadoras
        /\ respuesta'.status = 200
        /\ guardado' = "ok")
       => (/\ archivo'[1] = "json"
           /\ LoadEstados(archivo'[2]) = estados_globales'
           /\ otra' = otra
           /\ activo' = activo)]_vars

\* the other process set a valve, answered 200 and saved; the running
\* process then served the next request, a mutation, and saved: the file is
\* the running process's map and no longer holds the other's valve
C17_Testigo ==
    /\ reloj >= 2
    /\ otra.peticion.op = "set_valvula"
    /\ otra.respuesta.status = 200
    /\ otra.guardado = "ok"
    /\ otra.respuesta.cuerpo.timestamp = IsoFormat(reloj - 2)
    /\ peticion.op \in Mutadoras
    /\ respuesta.status = 200
    /\ guardado = "ok"
    /\ "timestamp" \in DOMAIN respuesta.cuerpo
    /\ respuesta.cuerpo.timestamp = IsoFormat(reloj - 1)
    /\ ArchivoIgualMemoria
    /\ ValvulaDe(otra.peticion, otra.estados_globales)["ultima_actualizacion"]
           = IsoFormat(reloj - 2)
    /\ "ultima_actualizacion"
           \notin DOMAIN ValvulaDe(otra.peticion, LoadEstados(archivo[2]))

\* thread h has a step left to run
EnVuelo(h) == hilos[h].pasos # <<>>

OpsValvula == {"set_valvula", "set_programacion", "delete_programacion"}

\* thread h serves an accepted request on one valve and has run all its
\* assignments
Escrito(h) ==
    /\ hilos[h].peticion.op \in OpsValvula
    /\ hilos[h].respuesta.status \in {0, 200}
    /\ \A i \in DOMAIN hilos[h].pasos : hilos[h].pasos[i][1] # "campo"

\* request q names the valve clave of block_id
Toca(q, block_id, clave) ==
    IF q.op \in OpsValvula
    THEN q.block_id = block_id /\ Str(q.num) = clave
    ELSE IF q.op = "set_estado_esp32"
    THEN /\ q.cuerpo[1] = "json"
         /\ EsDict(q.cuerpo[2])
         /\ LET valvulas == Get(q.cuerpo[2][2], "valvulas", PyDict(<<>>))
            IN  /\ EsDict(valvulas)
                /\ \E c \in DOMAIN valvulas[2] :
                      Split(c, "-") = <<block_id, clave>>
    ELSE FALSE

\* the valve dict holds what the accepted request q asked for
Esperado(q, valvula) ==
    /\ "ultima_actualizacion" \in DOMAIN valvula
    /\ q.op = "set_valvula"
          => valvula["estado"]
                 = PyStr(Lower(Get(q.cuerpo[2][2], "estado", PyStr(<<>>))[2]))
    /\ q.op = "set_programacion"
          => /\ valvula["estado"] = PyStr(auto)
             /\ valvula["programacion"]
                    = PyDict([on |-> Get(q.cuerpo[2][2], "on", None),
                              off |-> Get(q.cuerpo[2][2], "off", None)])
    /\ q.op = "delete_programacion"
          => /\ valvula["estado"] = PyStr(off)
             /\ valvula["programacion"] = None

\* C20: with requests running on threads whose steps interleave and whose
\* saves are atomic and succeed, when no request is in flight the file holds
\* the in-memory map, and a valve keeps what an accepted request wrote to it
\* whatever the other threads do to other valves.
C20_Hilos ==
    /\ (\A h \in Hilos : ~EnVuelo(h)) => ArchivoIgualMemoria
    /\ \A h \in Hilos :
          (/\ Escrito(h)
           /\ \A g \in Hilos \ {h} :
                 ~Toca(hilos[g].peticion, hilos[h].peticion.block_id,
                       Str(hilos[h].peticion.num)))
              => Esperado(hilos[h].peticion,
                          ValvulaDe(hilos[h].peticion, estados_globales))

\* two threads were both received before either stamped its valve, wrote to
\* different valves, saved and answered 200; both valves hold what was asked
\* and the file equals the map
C20_Testigo ==
    /\ \A h \in Hilos : ~EnVuelo(h)
    /\ ArchivoIgualMemoria
    /\ \E h \in Hilos, g \in Hilos :
          /\ h # g
          /\ hilos[h].peticion.op = "set_valvula"
          /\ hilos[g].peticion.op = "set_programacion"
          /\ hilos[h].respuesta.status = 200
          /\ hilos[g].respuesta.status = 200
          /\ ~Toca(hilos[g].peticion, hilos[h].peticion.block_id,
                   Str(hilos[h].peticion.num))
          /\ ValvulaDe(hilos[h].peticion, estados_globales)["ultima_actualizacion"]
                 = IsoFormat(reloj - 1)
          /\ ValvulaDe(hilos[g].peticion, estados_globales)["ultima_actualizacion"]
                 = IsoFormat(reloj - 1)
          /\ Esperado(hilos[h].peticion,
                      ValvulaDe(hilos[h].peticion, estados_globales))
          /\ Esperado(hilos[g].peticion,
                      ValvulaDe(hilos[g].peticion, estados_globales))

====
